---- MODULE Spec2Model ----
(***************************************************************************)
(* XXH64 streaming digest (src/xxhash.go).                                 *)
(*                                                                         *)
(* A uint64 is a tuple of 8 limbs of 8 bits, limb 1 the least significant  *)
(* (TLC's integers are 32 bits wide, so 64-bit wraparound arithmetic is    *)
(* carried out limb by limb, modulo 2^64).                                 *)
(***************************************************************************)
EXTENDS Integers, Sequences, FiniteSets, TLC

\* ------------------------------------------------------------------------
\* uint64 arithmetic, modulo 2^64
\* ------------------------------------------------------------------------

\* the values of a uint64
Word == [1..8 -> 0..255]

Zero64 == <<0, 0, 0, 0, 0, 0, 0, 0>>

\* TRUE, once v is evaluated. TLC evaluates the arguments of an operator on
\* demand, the last statement of a function first; CASE Now(v) -> e evaluates
\* v before e, as the statements of the source are executed in their order.
Now(v) == v = v

\* 2^k for 0 <= k <= 8
Pow2(k) == CASE k = 0 -> 1 [] k = 1 -> 2 [] k = 2 -> 4 [] k = 3 -> 8
             [] k = 4 -> 16 [] k = 5 -> 32 [] k = 6 -> 64 [] k = 7 -> 128
             [] OTHER -> 256

\* uint64(x) of a non-negative int below 2^31
FromInt(x) ==
  <<x % 256, (x \div 256) % 256, (x \div 65536) % 256, (x \div 16777216) % 256,
    0, 0, 0, 0>>

\* the 8 limbs of c1 + c2 * 2^8 + ... + c8 * 2^56, modulo 2^64
Carry(c1, c2, c3, c4, c5, c6, c7, c8) ==
  LET s2 == c2 + c1 \div 256
      s3 == c3 + s2 \div 256
      s4 == c4 + s3 \div 256
      s5 == c5 + s4 \div 256
      s6 == c6 + s5 \div 256
      s7 == c7 + s6 \div 256
      s8 == c8 + s7 \div 256
  IN  <<c1 % 256, s2 % 256, s3 % 256, s4 % 256,
        s5 % 256, s6 % 256, s7 % 256, s8 % 256>>

\* a + b
Add[a \in Word, b \in Word] ==
  Carry(a[1] + b[1], a[2] + b[2], a[3] + b[3], a[4] + b[4],
        a[5] + b[5], a[6] + b[6], a[7] + b[7], a[8] + b[8])

\* -a (two's complement): ^a + 1
Neg[a \in Word] ==
  Carry(256 - a[1], 255 - a[2], 255 - a[3], 255 - a[4],
        255 - a[5], 255 - a[6], 255 - a[7], 255 - a[8])

\* a * b: limb k is the sum of the products a[i] * b[j] with i + j = k + 1,
\* and the carry of limb k - 1
Mul[a \in Word, b \in Word] ==
  Carry(a[1] * b[1],
        a[1] * b[2] + a[2] * b[1],
        a[1] * b[3] + a[2] * b[2] + a[3] * b[1],
        a[1] * b[4] + a[2] * b[3] + a[3] * b[2] + a[4] * b[1],
        a[1] * b[5] + a[2] * b[4] + a[3] * b[3] + a[4] * b[2] + a[5] * b[1],
        a[1] * b[6] + a[2] * b[5] + a[3] * b[4] + a[4] * b[3] + a[5] * b[2]
          + a[6] * b[1],
        a[1] * b[7] + a[2] * b[6] + a[3] * b[5] + a[4] * b[4] + a[5] * b[3]
          + a[6] * b[2] + a[7] * b[1],
        a[1] * b[8] + a[2] * b[7] + a[3] * b[6] + a[4] * b[5] + a[5] * b[4]
          + a[6] * b[3] + a[7] * b[2] + a[8] * b[1])

RECURSIVE XorBits(_, _, _)
\* x ^ y of two values below 2^w
XorBits(x, y, w) ==
  IF w = 0 THEN 0
  ELSE ((x + y) % 2) + 2 * XorBits(x \div 2, y \div 2, w - 1)

XorNibble == [x \in 0..15 |-> [y \in 0..15 |-> XorBits(x, y, 4)]]

XorByte(x, y) ==
  16 * XorNibble[x \div 16][y \div 16] + XorNibble[x % 16][y % 16]

\* a ^ b
Xor[a \in Word, b \in Word] ==
  <<XorByte(a[1], b[1]), XorByte(a[2], b[2]), XorByte(a[3], b[3]),
    XorByte(a[4], b[4]), XorByte(a[5], b[5]), XorByte(a[6], b[6]),
    XorByte(a[7], b[7]), XorByte(a[8], b[8])>>

\* limb i of bits.RotateLeft64(a, 8 * q + r): the low bits of limb i - q of a,
\* shifted up by r, and the high bits of limb i - q - 1; the limbs are taken
\* around the word
RolLimb(a, i, q, r) ==
  ((a[((i + 7 - q) % 8) + 1] * Pow2(r)) % 256)
  + (a[((i + 14 - q) % 8) + 1] \div Pow2(8 - r))

\* bits.RotateLeft64(a, k), 0 < k < 64
Rol(a, k) ==
  <<RolLimb(a, 1, k \div 8, k % 8), RolLimb(a, 2, k \div 8, k % 8),
    RolLimb(a, 3, k \div 8, k % 8), RolLimb(a, 4, k \div 8, k % 8),
    RolLimb(a, 5, k \div 8, k % 8), RolLimb(a, 6, k \div 8, k % 8),
    RolLimb(a, 7, k \div 8, k % 8), RolLimb(a, 8, k \div 8, k % 8)>>

\* limb i of a, zero above the word
LimbHi(a, i) == IF i > 8 THEN 0 ELSE a[i]

\* limb i of a >> (8 * q + r)
ShrLimb(a, i, q, r) ==
  (LimbHi(a, i + q) \div Pow2(r)) + ((LimbHi(a, i + q + 1) * Pow2(8 - r)) % 256)

\* a >> k, 0 < k < 64
Shr[a \in Word, k \in 1..63] ==
  <<ShrLimb(a, 1, k \div 8, k % 8), ShrLimb(a, 2, k \div 8, k % 8),
    ShrLimb(a, 3, k \div 8, k % 8), ShrLimb(a, 4, k \div 8, k % 8),
    ShrLimb(a, 5, k \div 8, k % 8), ShrLimb(a, 6, k \div 8, k % 8),
    ShrLimb(a, 7, k \div 8, k % 8), ShrLimb(a, 8, k \div 8, k % 8)>>

RECURSIVE DecFrom(_, _, _)
DecFrom(groups, i, acc) ==
  CASE Now(acc) ->
    IF i > Len(groups) THEN acc
    ELSE DecFrom(groups, i + 1, Add[Mul[acc, FromInt(1000000)], FromInt(groups[i])])

\* the uint64 written in decimal, in groups of 6 digits, most significant first
Dec(groups) == DecFrom(groups, 1, Zero64)

\* ------------------------------------------------------------------------
\* constants of the algorithm
\* ------------------------------------------------------------------------

\* 11400714785074694791
prime1 == Dec(<<11, 400714, 785074, 694791>>)

\* 14029467366897019727
prime2 == Dec(<<14, 029467, 366897, 019727>>)

\* 1609587929392839161
prime3 == Dec(<<1, 609587, 929392, 839161>>)

\* 9650029242287828579
prime4 == Dec(<<9, 650029, 242287, 828579>>)

\* 2870177450012600261
prime5 == Dec(<<2, 870177, 450012, 600261>>)

prime1v == prime1

\* ------------------------------------------------------------------------
\* mixing primitives
\* ------------------------------------------------------------------------

\* binary.LittleEndian.Uint64(b): b[0] | b[1]<<8 | ... | b[7]<<56
u64(b) == <<b[1], b[2], b[3], b[4], b[5], b[6], b[7], b[8]>>

\* binary.LittleEndian.Uint32(b) widened to uint64: b[0] | ... | b[3]<<24
u32(b) == <<b[1], b[2], b[3], b[4], 0, 0, 0, 0>>

rol1[x \in Word] == Rol(x, 1)

rol7[x \in Word] == Rol(x, 7)

rol11[x \in Word] == Rol(x, 11)

rol12[x \in Word] == Rol(x, 12)

rol18[x \in Word] == Rol(x, 18)

rol23[x \in Word] == Rol(x, 23)

rol27[x \in Word] == Rol(x, 27)

rol31[x \in Word] == Rol(x, 31)

round[acc \in Word, input \in Word] ==
  Mul[rol31[Add[acc, Mul[input, prime2]]], prime1]

mergeRound[acc \in Word, val \in Word] ==
  Add[Mul[Xor[acc, round[Zero64, val]], prime1], prime4]

\* ------------------------------------------------------------------------
\* the Digest
\* ------------------------------------------------------------------------

\* Go's s[i:j] of the array or slice s, as a sequence; mem is indexed from 0
MemSlice(m, i, j) == [k \in 1..(j - i) |-> m[i + k - 1]]

\* Go's b[i:] of the slice b
From(b, i) == SubSeq(b, i + 1, Len(b))

\* Go's copy(m[off:], b) into the 32-byte array m: min(32 - off, len(b)) bytes
Copy(m, off, b) ==
  [j \in 0..31 |-> IF j >= off /\ j - off < Len(b) THEN b[j - off + 1] ELSE m[j]]

\* var d Digest: the zero value
ZeroDigest ==
  [v1 |-> Zero64, v2 |-> Zero64, v3 |-> Zero64, v4 |-> Zero64,
   total |-> 0, mem |-> [j \in 0..31 |-> 0], n |-> 0]

\* a faulty Reset: the byte count is not cleared
ResetKeepsTotal(dd) ==
  [dd EXCEPT !.n = 0,
             !.v1 = Add[prime1v, prime2],
             !.v2 = prime2,
             !.v3 = Zero64,
             !.v4 = Neg[prime1v]]

\* a faulty Reset: the carry length is not cleared
ResetKeepsCarry(dd) ==
  [dd EXCEPT !.total = 0,
             !.v1 = Add[prime1v, prime2],
             !.v2 = prime2,
             !.v3 = Zero64,
             !.v4 = Neg[prime1v]]

\* a faulty Reset: lane v3 is not re-seeded
ResetKeepsLane(dd) ==
  [dd EXCEPT !.n = 0,
             !.total = 0,
             !.v1 = Add[prime1v, prime2],
             !.v2 = prime2,
             !.v4 = Neg[prime1v]]

Reset(dd) ==
  [dd EXCEPT !.n = 0,
             !.total = 0,
             !.v1 = Add[prime1v, prime2],
             !.v2 = prime2,
             !.v3 = Zero64,
             !.v4 = Neg[prime1v]]

New == Reset(ZeroDigest)

\* the four lanes of dd after one 32-byte block is mixed in
MixBlock(dd, block) ==
  [dd EXCEPT !.v1 = round[dd.v1, u64(SubSeq(block, 1, 8))],
             !.v2 = round[dd.v2, u64(SubSeq(block, 9, 16))],
             !.v3 = round[dd.v3, u64(SubSeq(block, 17, 24))],
             !.v4 = round[dd.v4, u64(SubSeq(block, 25, 32))]]

RECURSIVE writeBlocksLoop(_, _, _)
\* the lanes after every full 32-byte block of b from offset off is mixed in
writeBlocksLoop(dd, b, off) ==
  IF Len(b) - off < 32 THEN [d |-> dd, nw |-> off]
  ELSE LET d1 == MixBlock(dd, SubSeq(b, off + 1, off + 32))
       IN  CASE Now(d1) -> writeBlocksLoop(d1, b, off + 32)

\* writeBlocks(d, b): the digest with the lanes updated, and the bytes consumed
writeBlocks(dd, b) == writeBlocksLoop(dd, b, 0)

\* a faulty Write: the bytes that finished the partial block are not dropped from b
WritePartialKeepsInput(dd, b) ==
  IF dd.n > 0
  THEN LET m == Copy(dd.mem, dd.n, b)
       IN  [d |-> [dd EXCEPT !.mem = m,
                             !.v1 = round[dd.v1, u64(MemSlice(m, 0, 8))],
                             !.v2 = round[dd.v2, u64(MemSlice(m, 8, 16))],
                             !.v3 = round[dd.v3, u64(MemSlice(m, 16, 24))],
                             !.v4 = round[dd.v4, u64(MemSlice(m, 24, 32))],
                             !.n = 0],
            b |-> b]
  ELSE [d |-> dd, b |-> b]

\* a faulty Write: the first two words of the partial block go to the wrong lanes
WritePartialSwapsLanes(dd, b) ==
  IF dd.n > 0
  THEN LET m == Copy(dd.mem, dd.n, b)
       IN  [d |-> [dd EXCEPT !.mem = m,
                             !.v1 = round[dd.v1, u64(MemSlice(m, 8, 16))],
                             !.v2 = round[dd.v2, u64(MemSlice(m, 0, 8))],
                             !.v3 = round[dd.v3, u64(MemSlice(m, 16, 24))],
                             !.v4 = round[dd.v4, u64(MemSlice(m, 24, 32))],
                             !.n = 0],
            b |-> From(b, 32 - dd.n)]
  ELSE [d |-> dd, b |-> b]

\* Write, lines 88-97: the partial block is finished off; the digest and the rest of b
WritePartial(dd, b) ==
  IF dd.n > 0
  THEN LET m == Copy(dd.mem, dd.n, b)
       IN  [d |-> [dd EXCEPT !.mem = m,
                             !.v1 = round[dd.v1, u64(MemSlice(m, 0, 8))],
                             !.v2 = round[dd.v2, u64(MemSlice(m, 8, 16))],
                             !.v3 = round[dd.v3, u64(MemSlice(m, 16, 24))],
                             !.v4 = round[dd.v4, u64(MemSlice(m, 24, 32))],
                             !.n = 0],
            b |-> From(b, 32 - dd.n)]
  ELSE [d |-> dd, b |-> b]

\* a faulty Write: b is not re-sliced behind the blocks written
WriteBlocksLeftKeepsInput(f) ==
  IF Len(f.b) >= 32
  THEN LET wb == writeBlocks(f.d, f.b)
       IN  CASE Now(wb) -> [d |-> wb.d, b |-> f.b]
  ELSE f

\* Write, lines 99-103: the full blocks left; f is the digest and the rest of b
WriteBlocksLeft(f) ==
  IF Len(f.b) >= 32
  THEN LET wb == writeBlocks(f.d, f.b)
       IN  CASE Now(wb) -> [d |-> wb.d, b |-> From(f.b, wb.nw)]
  ELSE f

\* a faulty Write: the length of the remaining partial block is stored, its bytes are not
WriteRemainingSkipsCopy(f) == [f.d EXCEPT !.n = Len(f.b)]

\* Write, lines 105-107: the remaining partial block is stored
WriteRemaining(f) == [f.d EXCEPT !.mem = Copy(f.d.mem, 0, f.b), !.n = Len(f.b)]

\* a faulty Write: the carry length is set to, not raised by, the length of b
WriteSmallSetsCarry(dd, b) ==
  [dd EXCEPT !.mem = Copy(dd.mem, dd.n, b), !.n = Len(b)]

\* Write, lines 81-86: the new data does not fill the current block
WriteSmall(dd, b) ==
  [dd EXCEPT !.mem = Copy(dd.mem, dd.n, b), !.n = dd.n + Len(b)]

\* a faulty Write: the bytes are counted only when they are appended to the carry
WriteTotalOnAppend(dd, b) ==
  [dd EXCEPT !.total = IF dd.n + Len(b) < 32 THEN dd.total + Len(b) ELSE dd.total]

\* the digest after d.total += len(b)
WriteTotal(dd, b) == [dd EXCEPT !.total = dd.total + Len(b)]

\* a faulty Write: a block that is exactly filled is left in the carry
WriteDigestFullCarry(dd, b) ==
  IF dd.n + Len(b) <= 32
  THEN WriteSmall(WriteTotal(dd, b), b)
  ELSE LET f1 == WritePartial(WriteTotal(dd, b), b)
           f2 == WriteBlocksLeft(f1)
       IN  CASE Now(f1) /\ Now(f2) -> WriteRemaining(f2)

\* the digest after Write(b)
WriteDigest(dd, b) ==
  IF dd.n + Len(b) < 32
  THEN WriteSmall(WriteTotal(dd, b), b)
  ELSE LET f1 == WritePartial(WriteTotal(dd, b), b)
           f2 == WriteBlocksLeft(f1)
       IN  CASE Now(f1) /\ Now(f2) -> WriteRemaining(f2)

\* a faulty Write: n is the number of bytes left in the carry
WriteReturnsCarry(dd, b) ==
  [d |-> WriteDigest(dd, b), n |-> WriteDigest(dd, b).n, err |-> "nil"]

\* the slice s[lo:hi] of an array or slice of cap elements
Slice(lo, hi, cap) == [lo |-> lo, hi |-> hi, cap |-> cap]

\* Write, lines 90-95: the slice expressions evaluated to finish the partial block
WritePartialSlices(dd, b) ==
  IF dd.n > 0
  THEN <<Slice(dd.n, 32, 32), Slice(0, 8, 32), Slice(8, 16, 32), Slice(16, 24, 32),
         Slice(24, 32, 32), Slice(32 - dd.n, Len(b), Len(b))>>
  ELSE <<>>

\* Write, line 102: b[nw:] behind the full blocks; f is the digest and the rest of b
WriteBlocksLeftSlices(f) ==
  IF Len(f.b) >= 32
  THEN <<Slice(writeBlocks(f.d, f.b).nw, Len(f.b), Len(f.b))>>
  ELSE <<>>

\* Write, lines 81-107: the slice expressions Write(b) evaluates, in order
WriteSlices(dd, b) ==
  IF dd.n + Len(b) < 32
  THEN <<Slice(dd.n, 32, 32)>>
  ELSE WritePartialSlices(dd, b)
       \o WriteBlocksLeftSlices(WritePartial(WriteTotal(dd, b), b))
       \o <<Slice(0, 32, 32)>>

\* Write(b): the digest afterwards and the results (n, err)
Write(dd, b) == [d |-> WriteDigest(dd, b), n |-> Len(b), err |-> "nil"]

RECURSIVE Tail8(_, _, _)
\* Sum64, lines 152-156: the loop over the 8-byte words of the carry;
\* t is the hash h, the cursor i and the reads of mem so far, each the
\* index and the number of bytes read
Tail8(t, m, end) ==
  IF t.i + 8 <= end
  THEN LET t1 == [h |-> Add[Mul[rol27[Xor[t.h,
                                          round[Zero64,
                                                u64(MemSlice(m, t.i, t.i + 8))]]],
                                prime1],
                            prime4],
                  i |-> t.i + 8,
                  reads |-> Append(t.reads, <<t.i, 8>>)]
       IN  CASE Now(t1) -> Tail8(t1, m, end)
  ELSE t

\* a faulty Sum64: the 4-byte step is left out when exactly 4 bytes remain
Tail4Late(t, m, end) ==
  IF t.i + 4 < end
  THEN [h |-> Add[Mul[rol23[Xor[t.h, Mul[u32(MemSlice(m, t.i, t.i + 4)), prime1]]],
                      prime2],
                  prime3],
        i |-> t.i + 4,
        reads |-> Append(t.reads, <<t.i, 4>>)]
  ELSE t

\* Sum64, lines 157-161: the 4-byte step
Tail4(t, m, end) ==
  IF t.i + 4 <= end
  THEN [h |-> Add[Mul[rol23[Xor[t.h, Mul[u32(MemSlice(m, t.i, t.i + 4)), prime1]]],
                      prime2],
                  prime3],
        i |-> t.i + 4,
        reads |-> Append(t.reads, <<t.i, 4>>)]
  ELSE t

RECURSIVE Tail1(_, _, _)
\* Sum64, lines 162-166: the loop over single bytes
Tail1(t, m, end) ==
  IF t.i < end
  THEN LET t1 == [h |-> Mul[rol11[Xor[t.h, Mul[FromInt(m[t.i]), prime5]]], prime1],
                  i |-> t.i + 1,
                  reads |-> Append(t.reads, <<t.i, 1>>)]
       IN  CASE Now(t1) -> Tail1(t1, m, end)
  ELSE t

\* h ^= h >> k
XorShift[h \in Word, k \in 1..63] == Xor[h, Shr[h, k]]

\* Sum64, lines 168-172: the final avalanche
Avalanche(h) ==
  XorShift[Mul[XorShift[Mul[XorShift[h, 33], prime2], 29], prime3], 32]

\* a faulty Sum64: prime5 is not added when no block was mixed
Sum64StartUnseeded(dd) ==
  IF dd.total >= 32
  THEN mergeRound[
         mergeRound[
           mergeRound[
             mergeRound[
               Add[Add[Add[rol1[dd.v1], rol7[dd.v2]], rol12[dd.v3]], rol18[dd.v4]],
               dd.v1],
             dd.v2],
           dd.v3],
         dd.v4]
  ELSE dd.v3

\* Sum64, lines 138-147: h before the byte count and the carry are added
Sum64Start(dd) ==
  IF dd.total >= 32
  THEN mergeRound[
         mergeRound[
           mergeRound[
             mergeRound[
               Add[Add[Add[rol1[dd.v1], rol7[dd.v2]], rol12[dd.v3]], rol18[dd.v4]],
               dd.v1],
             dd.v2],
           dd.v3],
         dd.v4]
  ELSE Add[dd.v3, prime5]

\* Sum64, lines 149-166: the byte count is added and the carry bytes m[0:end]
\* are consumed; the hash, the cursor and the reads when the loops are left
TailLoops(h, total, m, end) ==
  LET t0 == [h |-> Add[h, FromInt(total)], i |-> 0, reads |-> <<>>]
      t8 == Tail8(t0, m, end)
      t4 == Tail4(t8, m, end)
      t1 == Tail1(t4, m, end)
  IN  CASE Now(t0) /\ Now(t8) /\ Now(t4) /\ Now(t1) -> t1

\* Sum64, lines 149-174, over the carry bytes m[0:end] and the byte count total
Finalize(h, total, m, end) == Avalanche(TailLoops(h, total, m, end).h)

\* a faulty Sum64: the tail loops run over the whole of mem
Sum64WholeBuffer(dd) == Finalize(Sum64Start(dd), dd.total, dd.mem, 32)

Sum64(dd) == Finalize(Sum64Start(dd), dd.total, dd.mem, dd.n)

\* byte(x): the low 8 bits
Byte(x) == x[1]

\* a faulty Sum: the bytes are appended least significant first
SumBytesLittleEndian(s) ==
  CASE Now(s) ->
    <<Byte(s), Byte(Shr[s, 8]), Byte(Shr[s, 16]), Byte(Shr[s, 24]),
      Byte(Shr[s, 32]), Byte(Shr[s, 40]), Byte(Shr[s, 48]), Byte(Shr[s, 56])>>

\* the 8 bytes appended by Sum
SumBytes(s) ==
  CASE Now(s) ->
    <<Byte(Shr[s, 56]), Byte(Shr[s, 48]), Byte(Shr[s, 40]), Byte(Shr[s, 32]),
      Byte(Shr[s, 24]), Byte(Shr[s, 16]), Byte(Shr[s, 8]), Byte(s)>>

Sum(dd, b) == b \o SumBytes(Sum64(dd))

\* the one-shot hash from the lanes and the bytes consumed by writeBlocks
sum64Finalize(wb, b) ==
  CASE Now(wb) ->
    Finalize(Sum64Start([wb.d EXCEPT !.total = Len(b)]), Len(b),
             Copy(ZeroDigest.mem, 0, From(b, wb.nw)), Len(b) - wb.nw)

\* sum64(b), the one-shot hash
sum64(b) == sum64Finalize(writeBlocks(New, b), b)

\* ------------------------------------------------------------------------
\* the state machine: one Digest and its caller
\* ------------------------------------------------------------------------

\* the bytes fed in one run are at most MaxBytes
MaxBytes == 66

\* the calls of Write in one run are at most MaxWrites
MaxWrites == 4

\* the calls of Reset in one run are at most MaxResets
MaxResets == 2

\* the lengths of the slices passed to Write
Lens == {0, 1, 31, 32, 33, 64}

\* the slices passed to Sum
SumArgs == {<<>>, <<171, 0>>}

\* the g-th byte the caller feeds
Pattern(g) == (167 * g + 13 * (g \div 32) + 1) % 256

\* the next len bytes the caller feeds after g bytes
Input(g, len) == [i \in 1..len |-> Pattern(g + i - 1)]

VARIABLES
  d,        \* the Digest
  op,       \* the last operation called on d
  arg,      \* its argument
  ret,      \* what it returned
  written,  \* the bytes written since New or the last Reset
  fed,      \* the bytes fed since New
  writes,   \* the calls of Write since New
  resets    \* the calls of Reset since New

vars == <<d, op, arg, ret, written, fed, writes, resets>>

Init ==
  /\ d = New
  /\ op = "New"
  /\ arg = <<>>
  /\ ret = <<>>
  /\ written = <<>>
  /\ fed = 0
  /\ writes = 0
  /\ resets = 0

DoReset ==
  /\ resets < MaxResets
  /\ d' = Reset(d)
  /\ op' = "Reset"
  /\ arg' = <<>>
  /\ ret' = <<>>
  /\ written' = <<>>
  /\ resets' = resets + 1
  /\ UNCHANGED <<fed, writes>>

DoWrite ==
  \E len \in Lens :
    /\ fed + len <= MaxBytes
    /\ writes < MaxWrites
    /\ LET b == Input(fed, len)
           w == Write(d, b)
       IN  /\ d' = w.d
           /\ op' = "Write"
           /\ arg' = b
           /\ ret' = <<w.n, w.err>>
           /\ written' = written \o b
           /\ fed' = fed + len
           /\ writes' = writes + 1
           /\ UNCHANGED resets

\* a faulty Sum64: the carry is dropped once it is hashed
DoSum64DropsCarry ==
  /\ d' = [d EXCEPT !.n = 0]
  /\ op' = "Sum64"
  /\ arg' = <<>>
  /\ ret' = Sum64(d)
  /\ UNCHANGED <<written, fed, writes, resets>>

DoSum64 ==
  /\ d' = d
  /\ op' = "Sum64"
  /\ arg' = <<>>
  /\ ret' = Sum64(d)
  /\ UNCHANGED <<written, fed, writes, resets>>

DoSum ==
  \E b \in SumArgs :
    /\ d' = d
    /\ op' = "Sum"
    /\ arg' = b
    /\ ret' = Sum(d, b)
    /\ UNCHANGED <<written, fed, writes, resets>>

\* the first Write to the Digest, of any length up to MaxBytes
DoWriteFirst ==
  \E len \in 0..MaxBytes :
    /\ writes = 0
    /\ LET b == Input(fed, len)
           w == Write(d, b)
       IN  /\ d' = w.d
           /\ op' = "Write"
           /\ arg' = b
           /\ ret' = <<w.n, w.err>>
           /\ written' = written \o b
           /\ fed' = fed + len
           /\ writes' = writes + 1
           /\ UNCHANGED resets

Next == DoReset \/ DoWrite \/ DoSum64 \/ DoSum

Spec == Init /\ [][Next]_vars

\* New(), one Write of any length, and Sum64
NextOneWrite == DoWriteFirst \/ DoSum64

OneWriteSpec == Init /\ [][NextOneWrite]_vars

\* ------------------------------------------------------------------------
\* the byte count of long streams
\*
\* d.total is a Go int: 32 bits wide on a 32-bit build and 64 bits wide on a
\* 64-bit build, signed, and += wraps around. The Writes that bring it near
\* 2^31 carry gigabytes, so here the Digest is projected on total and n, which
\* Write sets from d.n and len(b) alone and Sum64 reads; d.total is the tuple
\* of the 4 or 8 limbs of the int, written is the number of bytes written as
\* a uint64, arg is len(b).
\* ------------------------------------------------------------------------

\* the int 0 of a build with ints of 32 and of 64 bits
IntZeros == {<<0, 0, 0, 0>>, Zero64}

\* x < 0 for the int x
IntNegative(x) == x[Len(x)] >= 128

\* uint64(x) for the int x: the sign is extended
Uint64OfInt(x) ==
  IF Len(x) = 8 THEN x
  ELSE IF IntNegative(x) THEN <<x[1], x[2], x[3], x[4], 255, 255, 255, 255>>
  ELSE <<x[1], x[2], x[3], x[4], 0, 0, 0, 0>>

\* the int x + len, wrapped to the width of x
IntAdd(x, len) ==
  LET s == Add[Uint64OfInt(x), FromInt(len)]
  IN  IF Len(x) = 8 THEN s ELSE <<s[1], s[2], s[3], s[4]>>

\* x >= 32 for the int x
IntAtLeast32(x) ==
  /\ ~IntNegative(x)
  /\ x[1] >= 32 \/ \E i \in 2..Len(x) : x[i] # 0

\* the bytes of b consumed by writeBlocks(d, b): its full 32-byte blocks
BlocksConsumed(len) == 32 * (len \div 32)

\* d.n after Write(b) with len(b) = len: lines 81-86, or the rest of b
\* behind the partial block (line 95) and the full blocks (line 102)
CarryAfterWrite(n, len) ==
  IF n + len < 32 THEN n + len
  ELSE LET rest == IF n > 0 THEN len - (32 - n) ELSE len
       IN  IF rest >= 32 THEN rest - BlocksConsumed(rest) ELSE rest

\* the lengths of the inputs: short ones, and slices of 2^29 and 2^30 bytes
LongLens == {0, 1, 31, 32, 33, 536870912, 1073741824}

CountInit ==
  /\ d \in {[total |-> zero, n |-> 0] : zero \in IntZeros}
  /\ op = "New"
  /\ arg = 0
  /\ ret = <<>>
  /\ written = Zero64
  /\ fed = 0
  /\ writes = 0
  /\ resets = 0

\* Reset: lines 62-63
CountReset ==
  /\ resets < MaxResets
  /\ d' = [d EXCEPT !.n = 0, !.total = SubSeq(Zero64, 1, Len(d.total))]
  /\ op' = "Reset"
  /\ arg' = 0
  /\ ret' = <<>>
  /\ written' = Zero64
  /\ resets' = resets + 1
  /\ UNCHANGED <<fed, writes>>

\* Write(b): lines 78-79 and the carry length
CountWrite ==
  \E len \in LongLens :
    /\ writes < MaxWrites
    /\ d' = [d EXCEPT !.total = IntAdd(d.total, len), !.n = CarryAfterWrite(d.n, len)]
    /\ op' = "Write"
    /\ arg' = len
    /\ ret' = <<len, "nil">>
    /\ written' = Add[written, FromInt(len)]
    /\ writes' = writes + 1
    /\ UNCHANGED <<fed, resets>>

\* Sum64: the branch taken on line 138 and the byte count added on line 149
CountSum64 ==
  /\ d' = d
  /\ op' = "Sum64"
  /\ arg' = 0
  /\ ret' = [branch |-> IF IntAtLeast32(d.total) THEN "lanes" ELSE "seed",
             added |-> Uint64OfInt(d.total)]
  /\ UNCHANGED <<written, fed, writes, resets>>

CountNext == CountReset \/ CountWrite \/ CountSum64

CountSpec == CountInit /\ [][CountNext]_vars

\* ------------------------------------------------------------------------
\* properties
\* ------------------------------------------------------------------------

\* C1: a Digest from New() that was fed the chunks of B by any number of
\* Writes, of any lengths, returns from Sum64 the one-shot hash of B.
ChunkingIndependence ==
  (op = "Sum64" /\ resets = 0) => ret = sum64(written)

\* at least three chunks, on both sides of a block boundary, then Sum64
ChunkedSum64Reached ==
  /\ op = "Sum64"
  /\ resets = 0
  /\ writes >= 3
  /\ Len(written) >= 64
  /\ d.n > 0
  /\ ret = sum64(written)

\* C2: Sum64 leaves v1..v4, total, mem and n as they were, and a Sum64 right
\* after a Sum64 returns the same value.
Sum64NonDestructive ==
  [][op' = "Sum64" => (d' = d /\ (op = "Sum64" => ret' = ret))]_vars

\* Sum64 was called with blocks mixed into the lanes and bytes in the carry
Sum64WithCarryReached ==
  /\ op = "Sum64"
  /\ d.total >= 32
  /\ d.n > 0

\* C3: after a Reset, Sum64 returns the one-shot hash of the bytes written
\* since the Reset, the value a fresh Digest returns after the same bytes.
ResetCorrectness ==
  (op = "Sum64" /\ resets > 0) =>
    /\ ret = sum64(written)
    /\ ret = Sum64(WriteDigest(New, written))

\* Sum64 after a Reset and a Write of one byte, with a byte of the use before
\* the Reset still in the carry buffer
ReusedSum64Reached ==
  /\ op = "Sum64"
  /\ resets > 0
  /\ Len(written) = 1
  /\ d.mem[1] # 0
  /\ ret = sum64(written)

\* C4: Write(b) returns len(b) and a nil error.
WriteNeverPartial ==
  op = "Write" => ret = <<Len(arg), "nil">>

\* a Write of two blocks into a Digest with a carry returned
LongWriteReached ==
  /\ op = "Write"
  /\ Len(arg) = 64
  /\ d.n > 0
  /\ ret = <<64, "nil">>

\* 0xEF46DB3751D8E999, least significant byte first
EmptyDigest == <<153, 233, 216, 81, 55, 219, 70, 239>>

\* C5: Sum64 of a Digest from New() with no byte written is 0xEF46DB3751D8E999.
KnownVectorEmpty ==
  (op = "Sum64" /\ resets = 0 /\ written = <<>>) => ret = EmptyDigest

\* Sum64 right after New()
EmptySum64Reached ==
  /\ op = "Sum64"
  /\ resets = 0
  /\ writes = 0
  /\ ret = EmptyDigest

\* C6: at rest, 0 <= n < 32.
CarryLengthInvariant ==
  d.n >= 0 /\ d.n < 32

\* a Write of 31 bytes filled the carry to exactly 32 bytes, and it was drained
CarryDrainedReached ==
  /\ op = "Write"
  /\ Len(arg) = 31
  /\ d.total = 32
  /\ d.n = 0

SeedLanes == <<Add[prime1, prime2], prime2, Zero64, Neg[prime1]>>

RECURSIVE LanesFrom(_, _, _)
\* the lanes v after each 32-byte block of stream from offset off is mixed in
LanesFrom(v, stream, off) ==
  CASE Now(v) ->
    IF off + 32 > Len(stream) THEN v
    ELSE LanesFrom(<<round[v[1], u64(SubSeq(stream, off + 1, off + 8))],
                     round[v[2], u64(SubSeq(stream, off + 9, off + 16))],
                     round[v[3], u64(SubSeq(stream, off + 17, off + 24))],
                     round[v[4], u64(SubSeq(stream, off + 25, off + 32))]>>,
                   stream, off + 32)

\* C8: at rest, the lanes are the seed values with each 32-byte block of the
\* first total - n bytes written mixed in, in order, once.
LaneInvariant ==
  <<d.v1, d.v2, d.v3, d.v4>>
    = LanesFrom(SeedLanes, SubSeq(written, 1, d.total - d.n), 0)

\* a Write finished a partial block from the carry and mixed one more block
LanesMixedReached ==
  /\ op = "Write"
  /\ Len(arg) = 64
  /\ d.total = 65
  /\ d.n = 1

\* C9, as stated: after Reset, every component of the Digest, the contents of
\* mem included, equals that of a Digest from New().
ResetEqualsNew ==
  op = "Reset" => d = New

\* C9, amended: after Reset, the lanes, total and n equal those of a Digest
\* from New(), and the bytes of mem are left as they were.
ResetReseeds ==
  [][op' = "Reset" =>
      /\ d'.v1 = New.v1 /\ d'.v2 = New.v2 /\ d'.v3 = New.v3 /\ d'.v4 = New.v4
      /\ d'.total = New.total
      /\ d'.n = New.n
      /\ d'.mem = d.mem]_vars

\* Reset was called with blocks mixed into the lanes and bytes left in mem
ResetAfterUseReached ==
  /\ op = "Reset"
  /\ fed > 32
  /\ d.mem # New.mem
  /\ d.n = 0
  /\ d.total = 0

\* the 8 bytes of x, most significant first
BigEndian(x) == <<x[8], x[7], x[6], x[5], x[4], x[3], x[2], x[1]>>

\* C10: Sum(b) returns b followed by the 8 bytes of Sum64(), most significant
\* first, and leaves the Digest as it was.
SumAppendsBigEndian ==
  [][op' = "Sum" => (d' = d /\ ret' = arg' \o BigEndian(Sum64(d)))]_vars

\* Sum was called with a non-empty b on a Digest that holds bytes
SumReached ==
  /\ op = "Sum"
  /\ Len(arg) = 2
  /\ d.total > 32
  /\ Len(ret) = 10
  /\ ret[3] # ret[10]

\* C11: a Write of an empty slice returns 0 and a nil error and leaves v1..v4,
\* total, n and mem as they were.
EmptyWriteNoOp ==
  [][(op' = "Write" /\ arg' = <<>>) => (d' = d /\ ret' = <<0, "nil">>)]_vars

\* an empty Write on a Digest with blocks mixed in and bytes in the carry
EmptyWriteReached ==
  /\ op = "Write"
  /\ arg = <<>>
  /\ d.total > 32
  /\ d.n > 0
  /\ ret = <<0, "nil">>

\* the reads of mem by the tail loops of Sum64 in the state at hand
TailOf(dd) == TailLoops(Sum64Start(dd), dd.total, dd.mem, dd.n)

\* the reads that consume n bytes left to right: 8-byte steps, at most one
\* 4-byte step, single bytes
TiersOf(n) ==
  [k \in 1..(n \div 8) |-> <<8 * (k - 1), 8>>]
  \o (IF n % 8 >= 4 THEN << <<8 * (n \div 8), 4>> >> ELSE <<>>)
  \o [k \in 1..(n % 4) |-> <<n - (n % 4) + k - 1, 1>>]

\* the number of the reads that cover byte j of mem
TimesRead(reads, j) ==
  Cardinality({k \in 1..Len(reads) : reads[k][1] <= j /\ j < reads[k][1] + reads[k][2]})

\* C16: Sum64 consumes mem[0..n) left to right in floor(n/8) 8-byte steps,
\* one 4-byte step if n mod 8 >= 4, and n mod 4 single-byte steps; each byte
\* below n is read once, no byte at or above n is read, and the cursor ends at n.
TailConsumption ==
  LET t == TailOf(d)
  IN  /\ t.reads = TiersOf(d.n)
      /\ t.i = d.n
      /\ \A j \in 0..31 : TimesRead(t.reads, j) = IF j < d.n THEN 1 ELSE 0

\* Sum64 was called with 31 bytes in the carry: three 8-byte steps, the
\* 4-byte step and three single bytes
AllTiersReached ==
  /\ op = "Sum64"
  /\ d.n = 31
  /\ Len(TailOf(d).reads) = 7

\* Go's bounds check of s[lo:hi]
InRange(s) == 0 <= s.lo /\ s.lo <= s.hi /\ s.hi <= s.cap

\* C12: in every reachable state the reads of mem by Sum64 end at or below
\* n <= 32, and for every input b every slice expression of Write(b) is in
\* range: b[32-n:] is evaluated only with len(b) >= 32 - n and the slices of
\* mem stay inside mem[0:32].
AccessInRange ==
  /\ 0 <= d.n /\ d.n <= 32
  /\ LET reads == TailOf(d).reads
     IN  \A k \in 1..Len(reads) : 0 <= reads[k][1] /\ reads[k][1] + reads[k][2] <= d.n
  /\ \A len \in 0..MaxBytes :
       LET slices == WriteSlices(d, Input(fed, len))
       IN  \A k \in 1..Len(slices) : InRange(slices[k])

\* a carry of 31 bytes: Sum64 reads up to mem[30], and a Write of one byte
\* evaluates b[1:] with len(b) = 1
FullestCarryReached ==
  /\ op = "Sum64"
  /\ d.n = 31
  /\ TailOf(d).reads[7] = <<30, 1>>
  /\ WriteSlices(d, Input(fed, 1))[6] = Slice(1, 1, 1)

\* C13: at rest, total - n is a multiple of 32, n = total mod 32, and
\* mem[0..n) holds the last n bytes written since New() or the last Reset, in order.
CarryContentInvariant ==
  /\ (d.total - d.n) % 32 = 0
  /\ d.n = d.total % 32
  /\ d.n <= Len(written)
  /\ \A j \in 0..(d.n - 1) : d.mem[j] = written[Len(written) - d.n + j + 1]

\* the carry holds the last byte of a Write of 33 bytes and the byte of the
\* Write after it
CarryOfTwoWritesReached ==
  /\ op = "Write"
  /\ Len(arg) = 1
  /\ d.total = 34
  /\ d.n = 2
  /\ d.mem[0] = written[33]
  /\ d.mem[1] = written[34]

\* the lanes of the Digest
Lanes(dd) == <<dd.v1, dd.v2, dd.v3, dd.v4>>

StaleFills == {0, 165, 255}

\* dd with each byte mem[j], j >= n, replaced by fill, or by its complement
\* when it is fill already
WithStale(dd, fill) ==
  [dd EXCEPT !.mem = [j \in 0..31 |->
                        IF j < dd.n THEN dd.mem[j]
                        ELSE IF dd.mem[j] = fill THEN 255 - fill ELSE fill]]

\* x and y agree on v1..v4, total, n and mem[0..n)
Agree(x, y) ==
  /\ Lanes(x) = Lanes(y)
  /\ x.total = y.total
  /\ x.n = y.n
  /\ \A j \in 0..(x.n - 1) : x.mem[j] = y.mem[j]

\* C17: a Digest that differs from the one at hand in every byte mem[n..32)
\* only returns the same Sum64, and after the same Write to both, of any
\* length, the two still agree on v1..v4, total, n, mem[0..n) and Sum64.
StaleBytesIgnored ==
  \A fill \in StaleFills :
    LET e == WithStale(d, fill)
    IN  /\ Agree(d, e)
        /\ d.n < 32 => e.mem[d.n] # d.mem[d.n]
        /\ Sum64(e) = Sum64(d)
        /\ \A len \in 0..MaxBytes :
             LET x == WriteDigest(d, Input(fed, len))
                 y == WriteDigest(e, Input(fed, len))
             IN  Agree(x, y) /\ Sum64(x) = Sum64(y)

\* Sum64 with one byte in the carry behind a mixed block, and the same value
\* from a Digest with other bytes in mem[1..32)
StaleBehindCarryReached ==
  /\ op = "Sum64"
  /\ d.total = 33
  /\ d.n = 1
  /\ WithStale(d, 165).mem[1] # d.mem[1]
  /\ WithStale(d, 165).mem[31] # d.mem[31]
  /\ ret = Sum64(WithStale(d, 165))

\* x >= 32 for the uint64 x
AtLeast32(x) == x[1] >= 32 \/ \E i \in 2..8 : x[i] # 0

\* C15: total never becomes negative and is the number of bytes written
\* modulo 2^64, so Sum64 takes the branch of total >= 32 whenever at least
\* 32 bytes were written and adds the number of bytes written to h.
TotalCountsAllBytes ==
  /\ ~IntNegative(d.total)
  /\ Uint64OfInt(d.total) = written
  /\ op = "Sum64" =>
       /\ (ret.branch = "lanes") <=> AtLeast32(written)
       /\ ret.added = written

====
